---- MODULE Spec2Model ----
(***************************************************************************)
(* vlanCounters.py: an SNMP pass-persist extension that polls the EOS      *)
(* "show vlan counters" command and republishes the per-VLAN hardware      *)
(* counters under OID_BASE.  The model covers update() (one polling tick)  *)
(* and the retry loop of the __main__ block.                               *)
(***************************************************************************)
EXTENDS Integers, Sequences, FiniteSets, TLC

VARIABLES
    pc,             \* position of the main block: "while", "serve", "except", "exit"
    retry_counter,  \* the retry_counter of the main block
    pp,             \* the PassPersist sink bound to the global pp
    raised,         \* the exception that left pp.start(), or NoException
    eos_data,       \* what run_cmd returned to the latest update()
    writes,         \* the add_str / add_int calls of the latest update(), in order
    issued,         \* the command batches the latest update() gave to run_cmd
    update_raised,  \* the exception that ended the latest update(), or NoException
    nticks,         \* update() calls made by the current pp.start()
    starts,         \* pp.start() calls made so far (saturates above MAX_RETRY)
    exit_code,      \* exit status of the process, NotExited while it runs
    last_print      \* the line most recently printed by the main block

vars == <<pc, retry_counter, pp, raised, eos_data, writes, issued,
          update_raised, nticks, starts, exit_code, last_print>>

-----------------------------------------------------------------------------
(* Configuration section *)

OID_BASE == ".1.3.6.1.3.53.9"
POLLING_INTERVAL == 30
MAX_RETRY == 10

KnownCounters ==
    {"inUcastPkts", "outUcastPkts", "inOctets", "outOctets",
     "inBcastPkts", "outBcastPkts", "inMcastPkts", "outMcastPkts"}

OID_TRANSLATION ==
    [c \in KnownCounters |->
        CASE c = "inUcastPkts"  -> 1
          [] c = "outUcastPkts" -> 2
          [] c = "inOctets"     -> 3
          [] c = "outOctets"    -> 4
          [] c = "inBcastPkts"  -> 5
          [] c = "outBcastPkts" -> 6
          [] c = "inMcastPkts"  -> 5
          [] c = "outMcastPkts" -> 6]

OID_DESCRIPTION == ".0."
OID_VALUE == ".1."

\* The names bound at module level by the import statements.
ImportedNames == {"sys", "snmp", "Server"}

-----------------------------------------------------------------------------
(* Bounds of the model *)

\* update() calls explored within one pp.start()
MaxTicks == 2

-----------------------------------------------------------------------------
(* Exceptions *)

NoException == [cls |-> "None", errno |-> "", arg |-> ""]
Exc(cls, errno, arg) == [cls |-> cls, errno |-> errno, arg |-> arg]

\* Immediate base class of each exception class that can reach the main block.
ExceptionBase ==
    [c \in {"KeyboardInterrupt", "SystemExit", "Exception", "StandardError",
            "EnvironmentError", "IOError", "socket.error", "LookupError",
            "KeyError", "NameError", "EOFError", "ProtocolError"} |->
        CASE c = "KeyboardInterrupt" -> "BaseException"
          [] c = "SystemExit"        -> "BaseException"
          [] c = "Exception"         -> "BaseException"
          [] c = "StandardError"     -> "Exception"
          [] c = "EnvironmentError"  -> "StandardError"
          [] c = "IOError"           -> "EnvironmentError"
          [] c = "socket.error"      -> "IOError"
          [] c = "LookupError"       -> "StandardError"
          [] c = "KeyError"          -> "LookupError"
          [] c = "NameError"         -> "StandardError"
          [] c = "EOFError"          -> "StandardError"
          [] c = "ProtocolError"     -> "Exception"]

RECURSIVE IsSubclass(_, _)
IsSubclass(c, base) ==
    IF c = base THEN TRUE
    ELSE IF c \in DOMAIN ExceptionBase THEN IsSubclass(ExceptionBase[c], base)
    ELSE FALSE

\* "except <base>" matches e
Matches(e, base) == e # NoException /\ IsSubclass(e.cls, base)


-----------------------------------------------------------------------------
(* Conversions *)

DigitChars == <<"0", "1", "2", "3", "4", "5", "6", "7", "8", "9">>

DigitValue(ch) == CHOOSE d \in 0..9 : DigitChars[d + 1] = ch

\* str(n) of a non-negative integer: its decimal digits
RECURSIVE str(_)
str(n) ==
    IF n < 10 THEN DigitChars[n + 1]
    ELSE str(n \div 10) \o DigitChars[(n % 10) + 1]

\* int(s) of a decimal numeral given as its list of characters
RECURSIVE int(_)
int(s) ==
    IF Len(s) = 1 THEN DigitValue(s[1])
    ELSE 10 * int(SubSeq(s, 1, Len(s) - 1)) + DigitValue(s[Len(s)])

-----------------------------------------------------------------------------
(* Dictionaries.  A dict the code iterates over is the list of its          *)
(* (key, value) items in iteration order, keys distinct.                   *)

Keys(items) == {items[i][1] : i \in DOMAIN items}
DictGet(items, k) == items[CHOOSE i \in DOMAIN items : items[i][1] = k][2]
IsDict(items) == \A i, j \in DOMAIN items : items[i][1] = items[j][1] => i = j

-----------------------------------------------------------------------------
(* The PassPersist sink *)

NoLabel == ""
EmptyPending == [o \in {} |-> TRUE]
NoSink ==
    [serial |-> 0, base |-> "", update |-> "", refresh |-> 0,
     pending |-> EmptyPending]

\* snmp.PassPersist(OID_BASE), the n-th sink constructed
PassPersist(base, n) ==
    [serial |-> n, base |-> base, update |-> "", refresh |-> 0,
     pending |-> EmptyPending]

StrEntry(value) ==
    [type |-> "STRING", value |-> value, number |-> 0, label |-> NoLabel]
IntEntry(number, label) ==
    [type |-> "INTEGER", value |-> "", number |-> number, label |-> label]

\* acc is the state of a running update(): the sink, the calls made on it
\* so far, the command batches given to run_cmd and the exception raised, if
\* any.
Register(acc, oid, entry) ==
    [acc EXCEPT
        !.pp.pending = [o \in DOMAIN acc.pp.pending \cup {oid} |->
                            IF o = oid THEN entry ELSE acc.pp.pending[o]],
        !.writes = Append(acc.writes, [oid |-> oid, entry |-> entry])]

add_str(acc, oid, value) == Register(acc, oid, StrEntry(value))
add_int(acc, oid, value, label) == Register(acc, oid, IntEntry(value, label))

-----------------------------------------------------------------------------
(* The Command Executor and the replies of the switch *)

VlanIds == {"1", "2"}

\* Counter names the switch reports; "inDiscards" has no OID_TRANSLATION entry.
ReportedCounters ==
    {"inUcastPkts", "outUcastPkts", "inBcastPkts", "inMcastPkts", "inDiscards"}

\* The counter values of the switch, as the decimal text of the reply.
CounterText ==
    [v \in VlanIds |-> [c \in ReportedCounters |->
        IF v = "1"
        THEN CASE c = "inUcastPkts"  -> <<"7", "7", "9", "3", "4">>
               [] c = "outUcastPkts" -> <<"0">>
               [] c = "inBcastPkts"  -> <<"1", "2">>
               [] c = "inMcastPkts"  -> <<"7">>
               [] c = "inDiscards"   -> <<"3">>
        ELSE CASE c = "inUcastPkts"  -> <<"5">>
               [] c = "outUcastPkts" -> <<"4", "0">>
               [] c = "inBcastPkts"  -> <<"0">>
               [] c = "inMcastPkts"  -> <<"9">>
               [] c = "inDiscards"   -> <<"1">>]]

\* The orders in which a reply lists its VLANs and each VLAN its counters.
VlanOrders == {<<>>, <<"1">>, <<"1", "2">>, <<"2", "1">>}
CounterOrders ==
    {<<>>} \cup {<<c>> : c \in ReportedCounters}
           \cup {p \in ReportedCounters \X ReportedCounters : p[1] # p[2]}

\* eos_data[0]['vlanCountersInfo'] of a reply listing vlans, each with names
VlanCountersInfo(vlans, names) ==
    [i \in DOMAIN vlans |->
        <<vlans[i], [j \in DOMAIN names |-> <<names[j], CounterText[vlans[i]][names[j]]>>]>>]

\* The switch at the time of a call: the error its socket gives, if any, and
\* the counters it holds.
Reply(info) == [raised |-> NoException, vlanCountersInfo |-> info]
Failure(e) == [raised |-> e, vlanCountersInfo |-> <<>>]

\* What switch.runCmds(1, cmds) can raise: the socket is unreachable, or the
\* reply is malformed.
TransportErrors ==
    {Exc("socket.error", "ECONNREFUSED", "Connection refused"),
     Exc("ProtocolError", "", "malformed reply")}

Responses ==
    {Reply(VlanCountersInfo(vs, ns)) : vs \in VlanOrders, ns \in CounterOrders}
        \cup {Failure(e) : e \in TransportErrors}

\* run_cmd(cmds): the error of the transport, or one result per command
run_cmd(cmds, response) ==
    [cmds |-> cmds,
     raised |-> response.raised,
     eos_response |->
        IF response.raised # NoException THEN <<>>
        ELSE [k \in DOMAIN cmds |->
                IF cmds[k] = "show vlan counters"
                THEN [vlanCountersInfo |-> response.vlanCountersInfo]
                ELSE [vlanCountersInfo |-> <<>>]]]

-----------------------------------------------------------------------------
(* update() *)

\* Variant of publish_counters: the suffix of the paths is the position
\* counter_loop of the counter instead of its OID_TRANSLATION entry.
RECURSIVE publish_counters_LoopSuffix(_, _, _, _)
publish_counters_LoopSuffix(acc, vlan, counters, j) ==
    IF j > Len(counters) THEN acc
    ELSE LET counter == counters[j][1]
         IN  IF counter \notin DOMAIN OID_TRANSLATION
             THEN [acc EXCEPT !.raised = Exc("KeyError", "", counter)]
             ELSE publish_counters_LoopSuffix(
                      add_int(add_str(acc,
                                      "0." \o vlan \o OID_DESCRIPTION \o str(j),
                                      counter),
                              "0." \o vlan \o OID_VALUE \o str(j),
                              int(DictGet(counters, counter)),
                              counter),
                      vlan, counters, j + 1)

\* Variant of publish_counters: a counter without an OID_TRANSLATION entry is
\* passed over.
RECURSIVE publish_counters_SkipUnknown(_, _, _, _)
publish_counters_SkipUnknown(acc, vlan, counters, j) ==
    IF j > Len(counters) THEN acc
    ELSE LET counter == counters[j][1]
         IN  IF counter \notin DOMAIN OID_TRANSLATION
             THEN publish_counters_SkipUnknown(acc, vlan, counters, j + 1)
             ELSE publish_counters_SkipUnknown(
                      add_int(add_str(acc,
                                      "0." \o vlan \o OID_DESCRIPTION
                                           \o str(OID_TRANSLATION[counter]),
                                      counter),
                              "0." \o vlan \o OID_VALUE
                                   \o str(OID_TRANSLATION[counter]),
                              int(DictGet(counters, counter)),
                              counter),
                      vlan, counters, j + 1)

\* Variant of publish_counters: a counter whose description path was already
\* written in this tick is passed over.
RECURSIVE publish_counters_OncePerPath(_, _, _, _)
publish_counters_OncePerPath(acc, vlan, counters, j) ==
    IF j > Len(counters) THEN acc
    ELSE LET counter == counters[j][1]
         IN  IF counter \notin DOMAIN OID_TRANSLATION
             THEN [acc EXCEPT !.raised = Exc("KeyError", "", counter)]
             ELSE IF \E k \in DOMAIN acc.writes :
                         acc.writes[k].oid = "0." \o vlan \o OID_DESCRIPTION
                                                 \o str(OID_TRANSLATION[counter])
                  THEN publish_counters_OncePerPath(acc, vlan, counters, j + 1)
                  ELSE publish_counters_OncePerPath(
                           add_int(add_str(acc,
                                           "0." \o vlan \o OID_DESCRIPTION
                                                \o str(OID_TRANSLATION[counter]),
                                           counter),
                                   "0." \o vlan \o OID_VALUE
                                        \o str(OID_TRANSLATION[counter]),
                                   int(DictGet(counters, counter)),
                                   counter),
                           vlan, counters, j + 1)

\* Variant of publish_counters: the description of a path is written once
\* and kept when the sink already holds one.
RECURSIVE publish_counters_KeepDescription(_, _, _, _)
publish_counters_KeepDescription(acc, vlan, counters, j) ==
    IF j > Len(counters) THEN acc
    ELSE LET counter == counters[j][1]
         IN  IF counter \notin DOMAIN OID_TRANSLATION
             THEN [acc EXCEPT !.raised = Exc("KeyError", "", counter)]
             ELSE LET oid == "0." \o vlan \o OID_DESCRIPTION
                                  \o str(OID_TRANSLATION[counter])
                      described ==
                          IF oid \in DOMAIN acc.pp.pending THEN acc
                          ELSE add_str(acc, oid, counter)
                  IN  publish_counters_KeepDescription(
                          add_int(described,
                                  "0." \o vlan \o OID_VALUE
                                       \o str(OID_TRANSLATION[counter]),
                                  int(DictGet(counters, counter)),
                                  counter),
                          vlan, counters, j + 1)

\* Lines 149-155: the counters of one VLAN from the j-th on.
RECURSIVE publish_counters(_, _, _, _)
publish_counters(acc, vlan, counters, j) ==
    IF j > Len(counters) THEN acc
    ELSE LET counter == counters[j][1]
         IN  IF counter \notin DOMAIN OID_TRANSLATION
             THEN [acc EXCEPT !.raised = Exc("KeyError", "", counter)]
             ELSE LET described ==
                          add_str(acc,
                                  "0." \o vlan \o OID_DESCRIPTION
                                       \o str(OID_TRANSLATION[counter]),
                                  counter)
                      valued ==
                          add_int(described,
                                  "0." \o vlan \o OID_VALUE
                                       \o str(OID_TRANSLATION[counter]),
                                  int(DictGet(counters, counter)),
                                  counter)
                 IN  publish_counters(valued, vlan, counters, j + 1)

\* Lines 147-155: the VLANs of the reply from the i-th on.
RECURSIVE publish_vlans(_, _, _)
publish_vlans(acc, info, i) ==
    IF i > Len(info) \/ acc.raised # NoException THEN acc
    ELSE publish_vlans(publish_counters(acc, info[i][1], info[i][2], 1), info, i + 1)

\* Variant of update: the "MIB updated" entry at path 0 is not written.
update_NoHeader(sink, response) ==
    LET called == run_cmd(<<"show vlan counters">>, response)
        entry == [pp |-> sink, writes |-> <<>>, raised |-> called.raised,
                  eos_data |-> called.eos_response, issued |-> <<called.cmds>>]
    IN  IF called.raised # NoException THEN entry
        ELSE publish_vlans(entry, entry.eos_data[1].vlanCountersInfo, 1)

\* Variant of update: the "MIB updated" entry is written before the switch is
\* asked.
update_HeaderFirst(sink, response) ==
    LET headed == add_str([pp |-> sink, writes |-> <<>>, raised |-> NoException,
                           eos_data |-> <<>>, issued |-> <<>>],
                          "0", "MIB updated by vlanCounters.py")
        called == run_cmd(<<"show vlan counters">>, response)
        entry == [headed EXCEPT !.raised = called.raised,
                                !.eos_data = called.eos_response,
                                !.issued = <<called.cmds>>]
    IN  IF called.raised # NoException THEN entry
        ELSE publish_vlans(entry, entry.eos_data[1].vlanCountersInfo, 1)

\* update() on sink, the switch answering with response
update(sink, response) ==
    LET called == run_cmd(<<"show vlan counters">>, response)
        entry == [pp |-> sink, writes |-> <<>>, raised |-> called.raised,
                  eos_data |-> called.eos_response, issued |-> <<called.cmds>>]
    IN  IF called.raised # NoException THEN entry
        ELSE publish_vlans(add_str(entry, "0", "MIB updated by vlanCounters.py"),
                           entry.eos_data[1].vlanCountersInfo, 1)

-----------------------------------------------------------------------------
(* The main block *)

NotExited == -1

Init ==
    /\ pc = "while"
    /\ retry_counter = MAX_RETRY
    /\ pp = NoSink
    /\ raised = NoException
    /\ eos_data = <<>>
    /\ writes = <<>>
    /\ issued = <<>>
    /\ update_raised = NoException
    /\ nticks = 0
    /\ starts = 0
    /\ exit_code = NotExited
    /\ last_print = ""

\* Variant of EnterRunning: the loop test is written retry_counter >= 0.
EnterRunning_TestGE ==
    /\ pc = "while"
    /\ retry_counter >= 0
    /\ starts' = IF starts > MAX_RETRY THEN starts ELSE starts + 1
    /\ pp' = [serial |-> starts', base |-> OID_BASE, update |-> "update",
              refresh |-> POLLING_INTERVAL, pending |-> [o \in {} |-> TRUE]]
    /\ pc' = "serve"
    /\ nticks' = 0
    /\ raised' = NoException
    /\ eos_data' = <<>>
    /\ writes' = <<>>
    /\ issued' = <<>>
    /\ update_raised' = NoException
    /\ UNCHANGED <<retry_counter, exit_code, last_print>>

\* Variant of EnterRunning: the sink is constructed once, on the first pass,
\* and pp.start() is entered on it again on every later pass.
EnterRunning_ReuseSink ==
    /\ pc = "while"
    /\ retry_counter > 0
    /\ starts' = IF starts > MAX_RETRY THEN starts ELSE starts + 1
    /\ pp' = IF pp = NoSink
             THEN [PassPersist(OID_BASE, starts') EXCEPT !.update = "update",
                                                        !.refresh = POLLING_INTERVAL]
             ELSE pp
    /\ pc' = "serve"
    /\ nticks' = 0
    /\ raised' = NoException
    /\ eos_data' = <<>>
    /\ writes' = <<>>
    /\ issued' = <<>>
    /\ update_raised' = NoException
    /\ UNCHANGED <<retry_counter, exit_code, last_print>>

\* Lines 160-166: the loop test holds; a sink is constructed and pp.start()
\* is entered.
EnterRunning ==
    /\ pc = "while"
    /\ retry_counter > 0
    /\ starts' = IF starts > MAX_RETRY THEN starts ELSE starts + 1
    /\ pp' = [PassPersist(OID_BASE, starts') EXCEPT !.update = "update",
                                                    !.refresh = POLLING_INTERVAL]
    /\ pc' = "serve"
    /\ nticks' = 0
    /\ raised' = NoException
    /\ eos_data' = <<>>
    /\ writes' = <<>>
    /\ issued' = <<>>
    /\ update_raised' = NoException
    /\ UNCHANGED <<retry_counter, exit_code, last_print>>

\* Variant of Tick: an update() that returns sets retry_counter back to
\* MAX_RETRY.
Tick_ResetsBudget(response, surfaces) ==
    /\ pc = "serve"
    /\ nticks < MaxTicks
    /\ nticks = 0 => surfaces
    /\ \E done \in {update(pp, response)} :
           /\ pp' = done.pp
           /\ writes' = done.writes
           /\ issued' = done.issued
           /\ eos_data' = done.eos_data
           /\ update_raised' = done.raised
           /\ raised' = IF surfaces THEN done.raised ELSE NoException
           /\ pc' = IF done.raised = NoException THEN "serve" ELSE "except"
           /\ retry_counter' = IF done.raised = NoException THEN MAX_RETRY
                                ELSE retry_counter
    /\ nticks' = nticks + 1
    /\ UNCHANGED <<starts, exit_code, last_print>>

\* pp.start() calls update().  It makes the first call itself, so that an
\* exception of update() leaves pp.start(); the later calls are made by its
\* updater thread, whose death makes pp.start() end.
Tick(response, surfaces) ==
    /\ pc = "serve"
    /\ nticks < MaxTicks
    /\ nticks = 0 => surfaces
    /\ \E done \in {update(pp, response)} :
           /\ pp' = done.pp
           /\ writes' = done.writes
           /\ issued' = done.issued
           /\ eos_data' = done.eos_data
           /\ update_raised' = done.raised
           /\ raised' = IF surfaces THEN done.raised ELSE NoException
           /\ pc' = IF done.raised = NoException THEN "serve" ELSE "except"
    /\ nticks' = nticks + 1
    /\ UNCHANGED <<retry_counter, starts, exit_code, last_print>>

\* What the serve loop itself can raise: the user interrupts it, snmpd closes
\* the pipe it writes to, or its standard input ends.
ServeLoopErrors ==
    {Exc("KeyboardInterrupt", "", ""),
     Exc("IOError", "EPIPE", "Broken pipe"),
     Exc("EOFError", "", "")}

ServeLoopRaises(e) ==
    /\ pc = "serve"
    /\ raised' = e
    /\ pc' = "except"
    /\ UNCHANGED <<retry_counter, pp, eos_data, writes, issued, update_raised, nticks,
                   starts, exit_code, last_print>>

\* pp.start() returns
ServeLoopReturns ==
    /\ pc = "serve"
    /\ raised' = NoException
    /\ pc' = "except"
    /\ UNCHANGED <<retry_counter, pp, eos_data, writes, issued, update_raised, nticks,
                   starts, exit_code, last_print>>

\* sys.exit(status) after print line
Exit(line, status) ==
    /\ last_print' = line
    /\ exit_code' = status
    /\ pc' = "exit"

\* Variant of ExceptKeyboardInterrupt: the interrupt is handled as a failure
\* to retry.
ExceptKeyboardInterrupt_Retry ==
    /\ pc = "except"
    /\ raised # NoException
    /\ raised.cls = "KeyboardInterrupt"
    /\ last_print' = "Exiting on user request"
    /\ retry_counter' = retry_counter - 1
    /\ pc' = "while"
    /\ UNCHANGED <<pp, raised, eos_data, writes, issued, update_raised, nticks, starts,
                   exit_code>>

\* Lines 167-169
ExceptKeyboardInterrupt ==
    /\ pc = "except"
    /\ Matches(raised, "KeyboardInterrupt")
    /\ Exit("Exiting on user request", 1)
    /\ UNCHANGED <<retry_counter, pp, raised, eos_data, writes, issued, update_raised,
                   nticks, starts>>

\* Lines 170-176.  The handler reads the global name errno, which raises
\* NameError unless the module has bound it; an exception raised in a handler
\* is not caught by the clauses of the same try statement, so it ends the
\* process with a traceback and exit status 1.
ExceptIOError ==
    /\ pc = "except"
    /\ ~Matches(raised, "KeyboardInterrupt")
    /\ Matches(raised, "IOError")
    /\ IF "errno" \notin ImportedNames
       THEN Exit("NameError: name 'errno' is not defined", 1)
       ELSE IF raised.errno = "EPIPE"
            THEN Exit("snmpd process has closed the pipe", 1)
            ELSE Exit("updater thread has died: " \o raised.arg, 1)
    /\ UNCHANGED <<retry_counter, pp, raised, eos_data, writes, issued, update_raised,
                   nticks, starts>>

\* Variant of ExceptException: the handler ends the process as the IOError
\* handler does.
ExceptException_Fatal ==
    /\ pc = "except"
    /\ ~Matches(raised, "KeyboardInterrupt")
    /\ ~Matches(raised, "IOError")
    /\ Matches(raised, "Exception")
    /\ last_print' = "main thread has died"
    /\ exit_code' = 1
    /\ pc' = "exit"
    /\ UNCHANGED <<retry_counter, pp, raised, eos_data, writes, issued, update_raised,
                   nticks, starts>>

\* Lines 177-178 and 181 (the printed line is kept without the text of e)
ExceptException ==
    /\ pc = "except"
    /\ ~Matches(raised, "KeyboardInterrupt")
    /\ ~Matches(raised, "IOError")
    /\ Matches(raised, "Exception")
    /\ last_print' = "main thread has died"
    /\ retry_counter' = retry_counter - 1
    /\ pc' = "while"
    /\ UNCHANGED <<pp, raised, eos_data, writes, issued, update_raised, nticks, starts,
                   exit_code>>

\* Variant of TryElse: a pp.start() that returns ends the loop and the
\* process.
TryElse_Stops ==
    /\ pc = "except"
    /\ raised = NoException
    /\ Exit("updater thread has died with no information", 0)
    /\ UNCHANGED <<retry_counter, pp, raised, eos_data, writes, issued,
                   update_raised, nticks, starts>>

\* Lines 179-181
TryElse ==
    /\ pc = "except"
    /\ raised = NoException
    /\ last_print' = "updater thread has died with no information"
    /\ retry_counter' = retry_counter - 1
    /\ pc' = "while"
    /\ UNCHANGED <<pp, raised, eos_data, writes, issued, update_raised, nticks, starts,
                   exit_code>>

\* Variant of Exhausted: at zero the budget is granted anew and the loop goes
\* on.
Exhausted_Replenish ==
    /\ pc = "while"
    /\ ~(retry_counter > 0)
    /\ retry_counter' = MAX_RETRY
    /\ last_print' = "too many retries, exiting to preserve EOS"
    /\ UNCHANGED <<pc, pp, raised, eos_data, writes, issued, update_raised, nticks,
                   starts, exit_code>>

\* Line 182: the loop test fails; the script prints and runs off its end.
Exhausted ==
    /\ pc = "while"
    /\ ~(retry_counter > 0)
    /\ Exit("too many retries, exiting to preserve EOS", 0)
    /\ UNCHANGED <<retry_counter, pp, raised, eos_data, writes, issued, update_raised,
                   nticks, starts>>

Next ==
    \/ EnterRunning
    \/ \E response \in Responses, surfaces \in BOOLEAN : Tick(response, surfaces)
    \/ \E e \in ServeLoopErrors : ServeLoopRaises(e)
    \/ ServeLoopReturns
    \/ ExceptKeyboardInterrupt
    \/ ExceptIOError
    \/ ExceptException
    \/ TryElse
    \/ Exhausted

Spec == Init /\ [][Next]_vars

\* The steps of the main block itself: the loop test and the handlers.
MainBlockStep ==
    \/ EnterRunning
    \/ ExceptKeyboardInterrupt
    \/ ExceptIOError
    \/ ExceptException
    \/ TryElse
    \/ Exhausted

\* pp.start() ends, by an exception or by returning.
ServeLoopEnds == (\E e \in ServeLoopErrors : ServeLoopRaises(e)) \/ ServeLoopReturns

\* The interpreter keeps running the main block, and every run of the serve
\* loop ends.
FairSpec == Spec /\ WF_vars(MainBlockStep) /\ WF_vars(ServeLoopEnds)

-----------------------------------------------------------------------------
(* The Supervisor *)

State == IF pc = "exit" THEN "TERMINATED" ELSE "RUNNING"

TooManyRetries == "too many retries, exiting to preserve EOS"

IsBrokenPipe(e) == Matches(e, "IOError") /\ e.errno = "EPIPE"

\* C1: the retry counter starts at MAX_RETRY = 10 and stays within 0..10; the
\* serve loop runs only while the counter is positive and is started at most
\* 10 times; the n-th start is made after n - 1 retryable failures, so after
\* nine failures the tenth start is the last, and its failure ends the loop
\* with the 'too many retries' message and no further start.
RetryBudget ==
    /\ MAX_RETRY = 10
    /\ retry_counter \in 0..MAX_RETRY
    /\ starts <= MAX_RETRY
    /\ pc \in {"serve", "except"} => starts = MAX_RETRY - retry_counter + 1
    /\ pc = "serve" => retry_counter > 0
    /\ pc = "while" => starts = MAX_RETRY - retry_counter
    /\ (pc = "while" /\ starts = 0) => retry_counter = MAX_RETRY
    /\ retry_counter = 0 =>
          /\ starts = MAX_RETRY
          /\ pc \in {"while", "exit"}
          /\ ~ENABLED EnterRunning
          /\ pc = "exit" => last_print = TooManyRetries

RetryBudgetWitness ==
    /\ pc = "exit"
    /\ retry_counter = 0
    /\ starts = MAX_RETRY
    /\ last_print = TooManyRetries

\* C2: when the retry counter has reached zero the process ends with the
\* retries-exhausted message and exit status 1.
ExhaustionExitsNonZero ==
    retry_counter = 0 /\ pc = "exit" =>
        last_print = TooManyRetries /\ exit_code = 1

\* C3: a broken pipe (IOError with errno EPIPE) leaving the serve loop ends
\* the process through the broken-pipe path of the handler, with a non-zero
\* status, the retry counter as it was and no restart.
BrokenPipeFatal ==
    [][pc = "except" /\ IsBrokenPipe(raised) =>
          /\ pc' = "exit"
          /\ exit_code' \notin {NotExited, 0}
          /\ last_print' = "snmpd process has closed the pipe"
          /\ retry_counter' = retry_counter
          /\ starts' = starts]_vars

InterruptFatal ==
    /\ [][pc = "except" /\ Matches(raised, "KeyboardInterrupt") =>
              /\ pc' = "exit"
              /\ exit_code' = 1
              /\ retry_counter' = retry_counter
              /\ starts' = starts]_vars
    /\ [](pc = "exit" => ~ENABLED Next)

InterruptFatalWitness ==
    /\ pc = "exit"
    /\ Matches(raised, "KeyboardInterrupt")
    /\ retry_counter = 1
    /\ exit_code = 1
    /\ last_print = "Exiting on user request"

\* C6: when every run of the serve loop ends, the process reaches TERMINATED,
\* having started the serve loop at most MAX_RETRY times.
SupervisorTerminates == <>(State = "TERMINATED" /\ starts <= MAX_RETRY)

SupervisorTerminatesWitness ==
    /\ State = "TERMINATED"
    /\ starts = MAX_RETRY
    /\ nticks = MaxTicks

-----------------------------------------------------------------------------
(* The Counter Publisher *)

\* The latest update() got a reply from the switch.
TickReplied == nticks > 0 /\ eos_data # <<>>

\* The latest update() returned.
TickCompleted == TickReplied /\ update_raised = NoException

\* The per-VLAN map of the latest reply.
Info == eos_data[1].vlanCountersInfo

\* The (VLAN, counter) positions of the latest reply.
Positions == UNION {{<<i, j>> : j \in DOMAIN Info[i][2]} : i \in DOMAIN Info}
VlanAt(p) == Info[p[1]][1]
NameAt(p) == Info[p[1]][2][p[2]][1]

\* The path of the split convention, written out for the one-digit suffixes.
SplitPath(v, marker, s) ==
    "0." \o v \o "." \o marker \o "." \o <<"1", "2", "3", "4", "5", "6">>[s]

\* The numbers the texts of CounterText denote.
ReportedNumber ==
    [v \in VlanIds |-> [c \in ReportedCounters |->
        IF v = "1"
        THEN CASE c = "inUcastPkts"  -> 77934
               [] c = "outUcastPkts" -> 0
               [] c = "inBcastPkts"  -> 12
               [] c = "inMcastPkts"  -> 7
               [] c = "inDiscards"   -> 3
        ELSE CASE c = "inUcastPkts"  -> 5
               [] c = "outUcastPkts" -> 40
               [] c = "inBcastPkts"  -> 0
               [] c = "inMcastPkts"  -> 9
               [] c = "inDiscards"   -> 1]]

HeaderWrite ==
    [oid |-> "0",
     entry |-> [type |-> "STRING", value |-> "MIB updated by vlanCounters.py",
                number |-> 0, label |-> ""]]
DescriptionWrite(oid, name) ==
    [oid |-> oid,
     entry |-> [type |-> "STRING", value |-> name, number |-> 0, label |-> ""]]
ValueWrite(oid, number, name) ==
    [oid |-> oid,
     entry |-> [type |-> "INTEGER", value |-> "", number |-> number, label |-> name]]

\* Scenario A: {"1": {"inUcastPkts": "77934", "outUcastPkts": "0"}}
ScenarioA ==
    <<<<"1", <<<<"inUcastPkts", <<"7", "7", "9", "3", "4">>>>,
               <<"outUcastPkts", <<"0">>>>>>>>>>

\* C7: in a tick that completes, for every VLAN v and counter c of the
\* snapshot with suffix s = OID_TRANSLATION[c], update() writes the string c at
\* path 0.v.0.s and then the integer int(snapshot[v][c]), described by c, at
\* path 0.v.1.s; scenario A yields 0.1.0.1 = "inUcastPkts", 0.1.1.1 = 77934,
\* 0.1.0.2 = "outUcastPkts", 0.1.1.2 = 0.
SplitConvention ==
    TickCompleted =>
        /\ \A p \in Positions :
              NameAt(p) \in DOMAIN OID_TRANSLATION =>
                  \E k \in 1..(Len(writes) - 1) :
                      /\ writes[k] =
                            DescriptionWrite(
                                SplitPath(VlanAt(p), "0", OID_TRANSLATION[NameAt(p)]),
                                NameAt(p))
                      /\ writes[k + 1] =
                            ValueWrite(
                                SplitPath(VlanAt(p), "1", OID_TRANSLATION[NameAt(p)]),
                                ReportedNumber[VlanAt(p)][NameAt(p)],
                                NameAt(p))
        /\ Info = ScenarioA =>
              writes = <<HeaderWrite,
                         DescriptionWrite("0.1.0.1", "inUcastPkts"),
                         ValueWrite("0.1.1.1", 77934, "inUcastPkts"),
                         DescriptionWrite("0.1.0.2", "outUcastPkts"),
                         ValueWrite("0.1.1.2", 0, "outUcastPkts")>>

SplitConventionWitness ==
    /\ pc = "serve"
    /\ TickCompleted
    /\ Info = ScenarioA
    /\ Len(writes) = 5

\* The entries of the sink under the VLAN paths, by kind.
DescriptionOids ==
    {o \in DOMAIN pp.pending \ {"0"} : pp.pending[o].type = "STRING"}
ValueOids ==
    {o \in DOMAIN pp.pending \ {"0"} : pp.pending[o].type = "INTEGER"}

\* C8: the sink of a new attempt holds no entry before the first tick, and
\* after a first tick that completes, all names being known, it holds exactly
\* one description entry and one value entry for each (VLAN, counter) of the
\* reply, N x M pairs in all.
EntryCountPerTick ==
    /\ (pc = "serve" /\ nticks = 0) => DOMAIN pp.pending = {}
    /\ (pc = "serve" /\ nticks = 1 /\ TickCompleted) =>
          /\ Cardinality(DescriptionOids) = Cardinality(Positions)
          /\ Cardinality(ValueOids) = Cardinality(Positions)

\* The (VLAN, counter) positions of the reply that precede position p.
Before(p) ==
    {q \in Positions : q[1] < p[1] \/ (q[1] = p[1] /\ q[2] < p[2])}

UnknownPositions == {p \in Positions : NameAt(p) \notin DOMAIN OID_TRANSLATION}
FirstUnknown == CHOOSE p \in UnknownPositions : UnknownPositions \cap Before(p) = {}

\* C9: a counter name without a table entry makes update() raise a lookup
\* failure at that entry, never passing it over: the entries before it are
\* written, nothing is written for it or after it, the serve loop ends, and
\* the main block takes exactly one retry for that run, ending the process
\* only when the retries are exhausted.
LookupFailureAborts ==
    /\ (TickReplied /\ UnknownPositions # {}) =>
          /\ update_raised = Exc("KeyError", "", NameAt(FirstUnknown))
          /\ Len(writes) = 1 + 2 * Cardinality(Before(FirstUnknown))
          /\ \A k \in DOMAIN writes :
                /\ writes[k].entry.value # NameAt(FirstUnknown)
                /\ writes[k].entry.label # NameAt(FirstUnknown)
          /\ pc # "serve"
          /\ pc = "except" =>
                /\ raised \in {update_raised, NoException}
                /\ starts = MAX_RETRY - retry_counter + 1
          /\ pc = "while" => starts = MAX_RETRY - retry_counter
          /\ pc = "exit" => retry_counter = 0 /\ last_print = TooManyRetries
    /\ update_raised.cls = "KeyError" => TickReplied /\ UnknownPositions # {}

LookupFailureAbortsWitness ==
    /\ pc = "while"
    /\ retry_counter = MAX_RETRY - 1
    /\ nticks = 1
    /\ update_raised = Exc("KeyError", "", "inDiscards")
    /\ Len(Info) = 2
    /\ writes = <<HeaderWrite,
                  DescriptionWrite("0.2.0.2", "outUcastPkts"),
                  ValueWrite("0.2.1.2", 40, "outUcastPkts")>>

\* C10 as stated: a tick on an empty per-VLAN map writes nothing to the sink
\* and raises no error.
EmptyMapZeroWrites ==
    (TickReplied /\ Info = <<>>) =>
        writes = <<>> /\ update_raised = NoException

\* C10 amended: a tick on an empty per-VLAN map raises no error and writes no
\* counter entry; its one write is the "MIB updated" string at path 0.
EmptyMapHeaderOnly ==
    (TickReplied /\ Info = <<>>) =>
        /\ update_raised = NoException
        /\ writes = <<HeaderWrite>>
        /\ nticks = 1 => DOMAIN pp.pending = {"0"}
        /\ pp.pending["0"] = HeaderWrite.entry

EmptyMapHeaderOnlyWitness ==
    /\ pc = "serve"
    /\ TickReplied
    /\ Info = <<>>
    /\ nticks = 2
    /\ DOMAIN pp.pending # {"0"}

\* The positions of the latest reply that update() reached: all of them when
\* it returned, those before the failing one when it raised.
PublishedPositions ==
    IF UnknownPositions = {} THEN Positions ELSE Before(FirstUnknown)

\* The calls of the latest update() that wrote the description, and the value,
\* of the counter at position p.
DescriptionCalls(p) ==
    {k \in DOMAIN writes :
        writes[k] = DescriptionWrite(
                        SplitPath(VlanAt(p), "0", OID_TRANSLATION[NameAt(p)]),
                        NameAt(p))}
ValueCalls(p) ==
    {k \in DOMAIN writes :
        writes[k] = ValueWrite(
                        SplitPath(VlanAt(p), "1", OID_TRANSLATION[NameAt(p)]),
                        ReportedNumber[VlanAt(p)][NameAt(p)],
                        NameAt(p))}

\* C11: in a tick that does not fail every (VLAN, counter) of the snapshot is
\* written exactly once, by one description call and one value call, none
\* twice, none omitted and none retried; a failure in a write statement ends
\* the tick and the serve loop with the counters before it written once and
\* nothing written for it or for the counters after it.
ExactlyOncePublication ==
    /\ TickCompleted =>
          /\ UnknownPositions = {}
          /\ \A p \in Positions :
                /\ Cardinality(DescriptionCalls(p)) = 1
                /\ Cardinality(ValueCalls(p)) = 1
          /\ Len(writes) = 1 + 2 * Cardinality(Positions)
    /\ (TickReplied /\ update_raised # NoException) =>
          /\ UnknownPositions # {}
          /\ pc # "serve"
          /\ \A p \in PublishedPositions :
                /\ Cardinality(DescriptionCalls(p)) = 1
                /\ Cardinality(ValueCalls(p)) = 1
          /\ \A k \in DOMAIN writes : k > 1 =>
                \E p \in PublishedPositions :
                    k \in DescriptionCalls(p) \cup ValueCalls(p)
          /\ Len(writes) = 1 + 2 * Cardinality(PublishedPositions)

ExactlyOncePublicationWitness ==
    /\ pc = "serve"
    /\ TickCompleted
    /\ Len(Info) = 2
    /\ \E p, q \in Positions :
          /\ p[1] = q[1]
          /\ NameAt(p) = "inBcastPkts"
          /\ NameAt(q) = "inMcastPkts"
    /\ Len(writes) = 9

\* The Counter Snapshot a per-VLAN map denotes, whatever order it lists its
\* VLANs and counters in.
Snapshot(info) ==
    [vlans |-> {info[i][1] : i \in DOMAIN info},
     counters |-> UNION {{<<info[i][1], info[i][2][j][1], info[i][2][j][2]>> :
                            j \in DOMAIN info[i][2]} : i \in DOMAIN info}]

\* The path/entry pairs a tick wrote.
WrittenPairs(calls) == {calls[k] : k \in DOMAIN calls}

\* C12: when update() completes twice in succession on the same snapshot,
\* whatever order each reply lists its VLANs and counters in, the second tick
\* writes the same set of path/value pairs as the first and leaves the sink
\* contents as they were after the first.
IdempotentPublishing ==
    [][(/\ pc = "serve"
        /\ TickCompleted
        /\ nticks' = nticks + 1
        /\ update_raised' = NoException
        /\ Snapshot(eos_data'[1].vlanCountersInfo) = Snapshot(Info))
       => /\ WrittenPairs(writes') = WrittenPairs(writes)
          /\ pp'.pending = pp.pending]_vars

\* C13: update() publishes each (VLAN, counter) of the snapshot as one 32-bit
\* counter entry, described by the counter name, at the packed path
\* suffix.200vvvv (vvvv the VLAN id padded with zeros to four digits); a tick
\* on scenario A yields 1.2000001 = 77934 and 2.2000001 = 0.
PackedConvention ==
    LET \* the packed path, written out for the one-digit VLAN ids and suffixes
        PackedPath(v, s) ==
            <<"1", "2", "3", "4", "5", "6">>[s] \o "." \o "200" \o "000" \o v
        Counter32Write(oid, number, name) ==
            [oid |-> oid,
             entry |-> [type |-> "Counter32", value |-> "", number |-> number,
                        label |-> name]]
    IN  TickCompleted =>
            /\ \A p \in Positions :
                  \E k \in DOMAIN writes :
                      writes[k] =
                          Counter32Write(
                              PackedPath(VlanAt(p), OID_TRANSLATION[NameAt(p)]),
                              ReportedNumber[VlanAt(p)][NameAt(p)],
                              NameAt(p))
            /\ Info = ScenarioA =>
                  /\ \E k \in DOMAIN writes :
                        writes[k] = Counter32Write("1.2000001", 77934, "inUcastPkts")
                  /\ \E k \in DOMAIN writes :
                        writes[k] = Counter32Write("2.2000001", 0, "outUcastPkts")

\* C14: every tick gives run_cmd exactly one command batch, <<"show vlan
\* counters">>; update() writes to the sink only after that call has returned
\* a reply; when the call raises, update() ends with that error unchanged,
\* the serve loop ends, and the tick has made no call on the sink, which is
\* exactly as it was before the tick.
PollBeforePublish ==
    /\ [](nticks > 0 => issued = << <<"show vlan counters">> >>)
    /\ [](writes # <<>> => eos_data # <<>>)
    /\ [][(nticks' = nticks + 1 /\ eos_data' = <<>>) =>
              /\ update_raised' \in TransportErrors
              /\ raised' \in {update_raised', NoException}
              /\ pc' = "except"
              /\ writes' = <<>>
              /\ pp' = pp]_vars
    /\ [][(nticks' = nticks + 1 /\ update_raised' \in TransportErrors) =>
              eos_data' = <<>>]_vars

PollBeforePublishWitness ==
    /\ pc = "except"
    /\ nticks = 2
    /\ issued = << <<"show vlan counters">> >>
    /\ eos_data = <<>>
    /\ update_raised = Exc("socket.error", "ECONNREFUSED", "Connection refused")
    /\ raised = update_raised
    /\ writes = <<>>
    /\ "0.1.1.1" \in DOMAIN pp.pending

\* C15: whenever the serve loop runs, the first time and after every retry,
\* it runs on the sink constructed for that attempt, bound to the base OID
\* .1.3.6.1.3.53.9, with update as callback and a 30 second interval; that
\* sink holds no entry before the first tick of the attempt, and after the
\* first tick only what that tick wrote, so it is never the sink of an
\* earlier attempt.
FreshSinkPerAttempt ==
    /\ pc = "serve" =>
          /\ pp.base = ".1.3.6.1.3.53.9"
          /\ pp.update = "update"
          /\ pp.refresh = 30
          /\ pp.serial = starts
    /\ (pc = "serve" /\ nticks = 0) => DOMAIN pp.pending = {}
    /\ nticks = 1 =>
          DOMAIN pp.pending = {writes[k].oid : k \in DOMAIN writes}
    /\ pc = "while" => pp.serial = starts

FreshSinkPerAttemptWitness ==
    /\ pc = "serve"
    /\ retry_counter = MAX_RETRY - 2
    /\ starts = 3
    /\ pp.serial = 3
    /\ nticks = 0
    /\ DOMAIN pp.pending = {}
    /\ last_print = "main thread has died"

\* C16: the retry counter never grows over the life of the process: every
\* step leaves it as it was or lowers it, a tick, completed or not, leaves it
\* as it was, so that after any number of completed ticks it still stands at
\* MAX_RETRY less the attempts that have ended; the serve loop is therefore
\* started at most MAX_RETRY = 10 times in total.
BudgetNeverReplenished ==
    /\ [][retry_counter' <= retry_counter]_vars
    /\ [][nticks' = nticks + 1 => retry_counter' = retry_counter]_vars
    /\ [](retry_counter \in 0..10)
    /\ [](pc = "serve" => retry_counter = 10 - (starts - 1))
    /\ [](starts <= 10)

BudgetNeverReplenishedWitness ==
    /\ pc = "serve"
    /\ nticks = 2
    /\ TickCompleted
    /\ starts = 4
    /\ retry_counter = 7
    /\ last_print = "updater thread has died with no information"

\* C17: when the serve loop returns without an exception the main block
\* prints the updater-thread line, lowers the retry counter by one, does not
\* exit, and enters the serve loop again while the counter is positive, the
\* same as it does for a caught runtime error; a normal return ends the
\* process only by exhausting the retries.
NormalReturnIsFailure ==
    /\ (pc = "while" /\ starts > 0) =>
          /\ retry_counter = MAX_RETRY - starts
          /\ exit_code = NotExited
          /\ raised = NoException <=>
                last_print = "updater thread has died with no information"
          /\ raised # NoException <=> last_print = "main thread has died"
          /\ retry_counter > 0 => ENABLED EnterRunning
    /\ (pc = "except" /\ raised = NoException) =>
          /\ ENABLED TryElse
          /\ ~ENABLED ExceptKeyboardInterrupt
          /\ ~ENABLED ExceptIOError
          /\ ~ENABLED ExceptException
          /\ retry_counter = MAX_RETRY - starts + 1
    /\ (pc = "exit" /\ raised = NoException) =>
          /\ retry_counter = 0
          /\ last_print = TooManyRetries

NormalReturnIsFailureWitness ==
    /\ pc = "serve"
    /\ nticks = 0
    /\ starts = 2
    /\ retry_counter = MAX_RETRY - 1
    /\ last_print = "updater thread has died with no information"

\* The suffixes of the table.
Suffixes == {OID_TRANSLATION[c] : c \in DOMAIN OID_TRANSLATION}

\* C18: after every tick, completed or aborted by a lookup failure, for every
\* VLAN v and suffix s the sink holds a description at 0.v.0.s exactly when it
\* holds a value at 0.v.1.s, the name stored as the description is the name
\* of the counter the value was written for and the value is that counter's,
\* also when two names of the table share s; the sink holds nothing else
\* besides the entry at path 0.
DescriptionValuePairing ==
    /\ \A v \in VlanIds, s \in Suffixes :
          /\ SplitPath(v, "0", s) \in DOMAIN pp.pending
                <=> SplitPath(v, "1", s) \in DOMAIN pp.pending
          /\ SplitPath(v, "0", s) \in DOMAIN pp.pending =>
                LET description == pp.pending[SplitPath(v, "0", s)]
                    value == pp.pending[SplitPath(v, "1", s)]
                IN  /\ description.type = "STRING"
                    /\ value.type = "INTEGER"
                    /\ description.value \in DOMAIN OID_TRANSLATION
                    /\ OID_TRANSLATION[description.value] = s
                    /\ value.label = description.value
                    /\ value.number = ReportedNumber[v][description.value]
    /\ DOMAIN pp.pending \subseteq
          {"0"} \cup {SplitPath(v, m, s) :
                         v \in VlanIds, m \in {"0", "1"}, s \in Suffixes}

DescriptionValuePairingWitness ==
    /\ pc = "except"
    /\ nticks = 2
    /\ update_raised = Exc("KeyError", "", "inDiscards")
    /\ writes = <<HeaderWrite,
                  DescriptionWrite("0.1.0.5", "inBcastPkts"),
                  ValueWrite("0.1.1.5", 12, "inBcastPkts")>>
    /\ "0.2.0.5" \in DOMAIN pp.pending
    /\ pp.pending["0.2.0.5"].value = "inMcastPkts"
    /\ pp.pending["0.2.1.5"].number = 9

=============================================================================
